---------------------------- MODULE Spec2Model ----------------------------
(***************************************************************************)
(* Verification model of salva's contact detection (geometry/contacts.rs), *)
(* of the LiquidWorld orchestrator (liquid_world.rs) and of the artificial *)
(* viscosity force (solver/viscosity/artificial_viscosity.rs).             *)
(*                                                                         *)
(* Contact detection works on integer positions on a line, so a grid cell  *)
(* is an integer and its neighbor cells are the adjacent ones.  The        *)
(* viscosity pass works on two-component integer vectors; its real         *)
(* arithmetic is exact rational arithmetic extended with the IEEE results  *)
(* of a division by zero (inf, NaN); rounding is not modelled.             *)
(* Indices are 1-based (the code's index k is k+1 here); a range keeps the *)
(* code's half-open 0-based offsets into the flat contact array.           *)
(***************************************************************************)
EXTENDS Integers, Sequences, FiniteSets, TLC

VARIABLES
    h,                \* compute_contacts: kernel radius / LiquidWorld.h
    fluids,           \* Seq of fluid models, each a Seq of positions
    boundaries,       \* Seq of boundary models, each a Seq of positions
    fluid_delta_pos,  \* Option of the last call: <<>> is None, <<d>> is Some(d)
    fluid_fluid_contacts,       \* Vec<ParticlesContacts>, one per fluid
    fluid_boundary_contacts,    \* Vec<ParticlesContacts>, one per fluid
    boundary_boundary_contacts, \* Vec<ParticlesContacts>, one per boundary
    cc_pc,            \* "idle": inputs changed since the last call; "done": compute_contacts returned
    pass              \* "none": no call yet; "first": the last call got fresh collections; "again": it got reused ones

VARIABLES
    particle_radius,  \* LiquidWorld.particle_radius
    swc_pc,           \* position inside step_with_coupling: number of its statements executed
    frame_dt,         \* dt argument of the step_with_coupling call in progress
    trace             \* calls made by the current (or last) step / step_with_coupling, in order

VARIABLES
    kernel_radius,          \* solve: kernel_radius
    viscosity_coefficient,  \* ArtificialViscosity.viscosity_coefficient
    positions,              \* fluid.positions
    velocities,             \* fluid.velocities
    accelerations,          \* fluid.accelerations
    volumes,                \* fluid.volumes
    density0,               \* fluid.density0
    densities,              \* solve: densities
    visc_contacts,          \* solve: fluid_fluid_contacts of the fluid
    solved                  \* TRUE once solve has returned

worldVars == <<h, fluids, boundaries>>

contactVars == <<fluid_delta_pos, fluid_fluid_contacts,
                 fluid_boundary_contacts, boundary_boundary_contacts, cc_pc, pass>>

couplingVars == <<particle_radius, swc_pc, frame_dt, trace>>

viscVars == <<kernel_radius, viscosity_coefficient, positions, velocities, accelerations,
              volumes, density0, densities, visc_contacts, solved>>

vars == <<worldVars, contactVars, couplingVars, viscVars>>

----------------------------------------------------------------------------
(* Bounds of the model *)

MaxPos == 2

MaxParticles == 2

MaxStored == 4

Positions == 0..MaxPos

Radii == {1, 2}

DeltaValues == {0, 1}

----------------------------------------------------------------------------
(* Contact store: geometry/contacts.rs *)

NewContact(im, ip, jm, jp) ==
    [i |-> ip, i_model |-> im, j |-> jp, j_model |-> jm, weight |-> 0, gradient |-> 0]

NewParticlesContacts == [contacts |-> <<>>, contact_ranges |-> <<>>]

EmptyRange == [start |-> 0, end |-> 0]

particle_contacts(pc, i) ==
    SubSeq(pc.contacts, pc.contact_ranges[i].start + 1, pc.contact_ranges[i].end)

contacts(pc) == pc.contacts

Resize(s, n, fill) ==
    IF n <= Len(s) THEN SubSeq(s, 1, n)
    ELSE s \o [k \in 1..(n - Len(s)) |-> fill]

SizeLists(lists, models) ==
    LET r == Resize(lists, Len(models), NewParticlesContacts)
    IN  [m \in 1..Len(models) |->
            [r[m] EXCEPT !.contact_ranges = Resize(@, Len(models[m]), EmptyRange)]]

----------------------------------------------------------------------------
(* Spatial hash grid (HGrid) *)

Payload(m, p, isb) == [model |-> m, particle |-> p, is_boundary |-> isb]

RECURSIVE AllPayloads(_, _, _)
AllPayloads(models, m, isb) ==
    IF m > Len(models) THEN <<>>
    ELSE [p \in 1..Len(models[m]) |-> Payload(m, p, isb)] \o AllPayloads(models, m + 1, isb)

Quantify(point, cell_width) == point \div cell_width

RECURSIVE SortedCells(_)
SortedCells(S) ==
    IF S = {} THEN <<>>
    ELSE LET lo == CHOOSE c \in S : \A d \in S : c <= d
         IN  <<lo>> \o SortedCells(S \ {lo})

NeighborCells(cells, cell, radius, cell_width) ==
    LET q == (radius + cell_width - 1) \div cell_width
    IN  SelectSeq(cells, LAMBDA c : c >= cell - q /\ c <= cell + q)

----------------------------------------------------------------------------
(* compute_contacts *)

InsertPoint(fl, bd, deltas, pl) ==
    IF pl.is_boundary THEN bd[pl.model][pl.particle]
    ELSE IF deltas # <<>> THEN fl[pl.model][pl.particle] + deltas[1][pl.model][pl.particle]
    ELSE fl[pl.model][pl.particle]

Inserted(fl, bd) == AllPayloads(fl, 1, FALSE) \o AllPayloads(bd, 1, TRUE)

BuildGrid(hh, fl, bd, deltas) ==
    LET ins == Inserted(fl, bd)
        key(pl) == Quantify(InsertPoint(fl, bd, deltas, pl), hh)
    IN  [c \in {key(ins[k]) : k \in 1..Len(ins)} |-> SelectSeq(ins, LAMBDA pl : key(pl) = c)]

RECURSIVE ConcatCells(_, _, _)
ConcatCells(grid, cells, k) ==
    IF k > Len(cells) THEN <<>>
    ELSE grid[cells[k]] \o ConcatCells(grid, cells, k + 1)

WithinRadius_strict(pi, pj, hh) == (pi - pj) * (pi - pj) < hh * hh

WithinRadius(pi, pj, hh) == (pi - pj) * (pi - pj) <= hh * hh

BoundaryPairTested(pj) == pj.is_boundary

BoundaryTestPoint(bd, pl) == bd[pl.model][pl.particle]

FluidTestPoint(fl, bd, deltas, pl) ==
    LET raw == IF pl.is_boundary THEN bd[pl.model][pl.particle]
               ELSE fl[pl.model][pl.particle]
    IN  IF deltas # <<>> /\ ~pl.is_boundary THEN raw + deltas[1][pl.model][pl.particle]
        ELSE raw

BoundaryMatches_noFilter(hh, bd, neighbors, pi) ==
    SelectSeq(neighbors,
              LAMBDA pj : pj.is_boundary =>
                          WithinRadius(BoundaryTestPoint(bd, pi), BoundaryTestPoint(bd, pj), hh))

BoundaryMatches(hh, bd, neighbors, pi) ==
    SelectSeq(neighbors,
              LAMBDA pj : BoundaryPairTested(pj)
                          /\ WithinRadius(BoundaryTestPoint(bd, pi), BoundaryTestPoint(bd, pj), hh))

FluidMatches_noSelf(hh, fl, bd, deltas, neighbors, pi, isb) ==
    SelectSeq(neighbors,
              LAMBDA pj : pj.is_boundary = isb /\ pj # pi
                          /\ WithinRadius(FluidTestPoint(fl, bd, deltas, pi),
                                          FluidTestPoint(fl, bd, deltas, pj), hh))

FluidMatches(hh, fl, bd, deltas, neighbors, pi, isb) ==
    SelectSeq(neighbors,
              LAMBDA pj : pj.is_boundary = isb
                          /\ WithinRadius(FluidTestPoint(fl, bd, deltas, pi),
                                          FluidTestPoint(fl, bd, deltas, pj), hh))

RangeStart_zero(pc) == 0

RangeStart(pc) == Len(pc.contacts)

PushMatches(pc, pi, matches) ==
    LET start == RangeStart(pc)
    IN  [contacts |-> pc.contacts
                      \o [k \in 1..Len(matches) |->
                             NewContact(pi.model, pi.particle, matches[k].model, matches[k].particle)],
         contact_ranges |-> [pc.contact_ranges EXCEPT
                                ![pi.particle] = [start |-> start, end |-> start + Len(matches)]]]

VisitParticle(hh, fl, bd, deltas, neighbors, out, pi) ==
    IF pi.is_boundary
    THEN [out EXCEPT !.bb[pi.model] = PushMatches(@, pi, BoundaryMatches(hh, bd, neighbors, pi))]
    ELSE [out EXCEPT
            !.ff[pi.model] = PushMatches(@, pi, FluidMatches(hh, fl, bd, deltas, neighbors, pi, FALSE)),
            !.fb[pi.model] = PushMatches(@, pi, FluidMatches(hh, fl, bd, deltas, neighbors, pi, TRUE))]

RECURSIVE VisitCell(_, _, _, _, _, _, _, _)
VisitCell(hh, fl, bd, deltas, neighbors, out, curr_particles, k) ==
    IF k > Len(curr_particles) THEN out
    ELSE VisitCell(hh, fl, bd, deltas, neighbors,
                   VisitParticle(hh, fl, bd, deltas, neighbors, out, curr_particles[k]),
                   curr_particles, k + 1)

RECURSIVE VisitCells(_, _, _, _, _, _, _, _)
VisitCells(hh, fl, bd, deltas, grid, cells, out, k) ==
    IF k > Len(cells) THEN out
    ELSE LET neighbors == ConcatCells(grid, NeighborCells(cells, cells[k], hh, hh), 1)
         IN  VisitCells(hh, fl, bd, deltas, grid, cells,
                        VisitCell(hh, fl, bd, deltas, neighbors, out, grid[cells[k]], 1), k + 1)

compute_contacts(hh, fl, bd, deltas, ffc, fbc, bbc) ==
    LET grid == BuildGrid(hh, fl, bd, deltas)
    IN  VisitCells(hh, fl, bd, deltas, grid, SortedCells(DOMAIN grid),
                   [ff |-> SizeLists(ffc, fl), fb |-> SizeLists(fbc, fl), bb |-> SizeLists(bbc, bd)],
                   1)

----------------------------------------------------------------------------
(* Callers of compute_contacts: particle sets are registered, then contact *)
(* detection runs on the same output collections, with or without deltas.  *)

RECURSIVE Footprint(_, _)
Footprint(models, k) ==
    IF k > Len(models) THEN 0
    ELSE (IF Len(models[k]) = 0 THEN 1 ELSE Len(models[k])) + Footprint(models, k + 1)

ParticleSets(n) == UNION {[1..k -> Positions] : k \in 0..n}

Room == MaxParticles - Footprint(fluids, 1) - Footprint(boundaries, 1)

RECURSIVE StoredIn(_, _)
StoredIn(lists, k) ==
    IF k > Len(lists) THEN 0 ELSE Len(lists[k].contacts) + StoredIn(lists, k + 1)

Stored ==
    StoredIn(fluid_fluid_contacts, 1) + StoredIn(fluid_boundary_contacts, 1)
    + StoredIn(boundary_boundary_contacts, 1)

RECURSIVE DeltaChoices(_, _)
DeltaChoices(fl, k) ==
    IF k = 0 THEN {<<>>}
    ELSE {Append(d, x) : d \in DeltaChoices(fl, k - 1), x \in [1..Len(fl[k]) -> DeltaValues]}

NoContacts ==
    /\ fluid_delta_pos = <<>>
    /\ fluid_fluid_contacts = <<>>
    /\ fluid_boundary_contacts = <<>>
    /\ boundary_boundary_contacts = <<>>
    /\ cc_pc = "idle"
    /\ pass = "none"

NoCoupling ==
    /\ particle_radius = 1
    /\ swc_pc = 0
    /\ frame_dt = 0
    /\ trace = <<>>

NoViscosity ==
    /\ kernel_radius = 1
    /\ viscosity_coefficient = 0
    /\ positions = <<>>
    /\ velocities = <<>>
    /\ accelerations = <<>>
    /\ volumes = <<>>
    /\ density0 = 1
    /\ densities = <<>>
    /\ visc_contacts = NewParticlesContacts
    /\ solved = FALSE

InitContacts ==
    /\ h \in Radii
    /\ fluids = <<>>
    /\ boundaries = <<>>
    /\ NoContacts
    /\ NoCoupling
    /\ NoViscosity

RegisterFluid ==
    /\ Room >= 1
    /\ Stored <= MaxStored
    /\ \E ps \in ParticleSets(Room) :
          fluids' = Append(fluids, ps)
    /\ cc_pc' = "idle"
    /\ UNCHANGED <<h, boundaries, fluid_delta_pos, fluid_fluid_contacts,
                   fluid_boundary_contacts, boundary_boundary_contacts, pass>>
    /\ UNCHANGED <<couplingVars, viscVars>>

RegisterBoundary ==
    /\ Room >= 1
    /\ Stored <= MaxStored
    /\ \E ps \in ParticleSets(Room) :
          boundaries' = Append(boundaries, ps)
    /\ cc_pc' = "idle"
    /\ UNCHANGED <<h, fluids, fluid_delta_pos, fluid_fluid_contacts,
                   fluid_boundary_contacts, boundary_boundary_contacts, pass>>
    /\ UNCHANGED <<couplingVars, viscVars>>

CallComputeContacts(deltas) ==
    /\ Stored <= MaxStored
    /\ LET out == compute_contacts(h, fluids, boundaries, deltas, fluid_fluid_contacts,
                                   fluid_boundary_contacts, boundary_boundary_contacts)
       IN  /\ fluid_fluid_contacts' = out.ff
           /\ fluid_boundary_contacts' = out.fb
           /\ boundary_boundary_contacts' = out.bb
    /\ fluid_delta_pos' = deltas
    /\ cc_pc' = "done"
    /\ pass' = IF pass = "none" THEN "first" ELSE "again"
    /\ UNCHANGED <<worldVars, couplingVars, viscVars>>

ComputeCommitted == CallComputeContacts(<<>>)

ComputePredicted == \E d \in DeltaChoices(fluids, Len(fluids)) : CallComputeContacts(<<d>>)

NextContacts == RegisterFluid \/ RegisterBoundary \/ ComputeCommitted \/ ComputePredicted

SpecContacts == InitContacts /\ [][NextContacts]_vars

----------------------------------------------------------------------------
(* LiquidWorld: liquid_world.rs.  The solver and the coupling manager are   *)
(* collaborators; of their calls the model keeps the order and arguments.  *)

RadiusInputs == {-1, 0, 1}

SmoothingInputs == {0, 1, 2}

FrameDts == {1, 2}

new(pr, sf) ==
    /\ particle_radius = pr
    /\ h = pr * sf * 2
    /\ fluids = <<>>
    /\ boundaries = <<>>

Call(op, dt) == [op |-> op, dt |-> dt]

step(t, dt) == Append(t, Call("solver.step", dt))

step_with_coupling_body_swapped == <<"step", "update_boundaries", "transmit_forces">>

step_with_coupling_body == <<"update_boundaries", "step", "transmit_forces">>

Execute(stmt, t, dt) ==
    IF stmt = "step" THEN step(t, dt) ELSE Append(t, Call(stmt, 0))

InitWorld ==
    /\ \E pr \in RadiusInputs, sf \in SmoothingInputs : new(pr, sf)
    /\ swc_pc = 0
    /\ frame_dt = 0
    /\ trace = <<>>
    /\ NoContacts
    /\ NoViscosity

add_fluid ==
    /\ swc_pc = 0
    /\ Room >= 1
    /\ \E fluid \in ParticleSets(Room) : fluids' = Append(fluids, fluid)
    /\ UNCHANGED <<h, boundaries, couplingVars, contactVars, viscVars>>

add_boundary ==
    /\ swc_pc = 0
    /\ Room >= 1
    /\ \E boundary \in ParticleSets(Room) : boundaries' = Append(boundaries, boundary)
    /\ UNCHANGED <<h, fluids, couplingVars, contactVars, viscVars>>

Step ==
    /\ swc_pc = 0
    /\ \E dt \in FrameDts :
          /\ trace' = step(<<>>, dt)
          /\ frame_dt' = dt
    /\ UNCHANGED <<worldVars, particle_radius, swc_pc, contactVars, viscVars>>

StepWithCouplingBegin ==
    /\ swc_pc = 0
    /\ \E dt \in FrameDts :
          /\ trace' = Execute(step_with_coupling_body[1], <<>>, dt)
          /\ frame_dt' = dt
    /\ swc_pc' = 1
    /\ UNCHANGED <<worldVars, particle_radius, contactVars, viscVars>>

StepWithCouplingContinue ==
    /\ swc_pc > 0
    /\ trace' = Execute(step_with_coupling_body[swc_pc + 1], trace, frame_dt)
    /\ swc_pc' = IF swc_pc + 1 = Len(step_with_coupling_body) THEN 0 ELSE swc_pc + 1
    /\ UNCHANGED <<worldVars, particle_radius, frame_dt, contactVars, viscVars>>

NextWorld ==
    add_fluid \/ add_boundary \/ Step \/ StepWithCouplingBegin \/ StepWithCouplingContinue

SpecWorld == InitWorld /\ [][NextWorld]_vars

----------------------------------------------------------------------------
(* Real numbers of the viscosity term: n/d with d > 0, in lowest terms;     *)
(* d = 0 holds the IEEE results of dividing by zero: n = 1 is +inf, n = -1  *)
(* is -inf and n = 0 is NaN.  Vectors have two components.                  *)

Sign(x) == IF x > 0 THEN 1 ELSE IF x < 0 THEN -1 ELSE 0

Abs(x) == IF x < 0 THEN -x ELSE x

RECURSIVE Gcd(_, _)
Gcd(a, b) == IF b = 0 THEN a ELSE Gcd(b, a % b)

Norm(n, d) ==
    IF d = 0 THEN [n |-> Sign(n), d |-> 0]
    ELSE LET g == Gcd(Abs(n), Abs(d))
         IN  [n |-> (Sign(d) * n) \div g, d |-> Abs(d) \div g]

Real(x) == [n |-> x, d |-> 1]

NaN == [n |-> 0, d |-> 0]

Mul(a, b) == Norm(a.n * b.n, a.d * b.d)

Add(a, b) ==
    IF a.d = 0 /\ b.d = 0 THEN (IF a.n = b.n THEN a ELSE NaN)
    ELSE Norm(a.n * b.d + b.n * a.d, a.d * b.d)

Neg(a) == [n |-> -a.n, d |-> a.d]

Sub(a, b) == Add(a, Neg(b))

Inv(a) ==
    IF a.d = 0 THEN (IF a.n = 0 THEN NaN ELSE Real(0))
    ELSE IF a.n = 0 THEN [n |-> 1, d |-> 0]
    ELSE Norm(a.d, a.n)

Div(a, b) == Mul(a, Inv(b))

VSub(u, v) == <<u[1] - v[1], u[2] - v[2]>>

Dot(u, v) == u[1] * v[1] + u[2] * v[2]

NormSquared(u) == Dot(u, u)

VZeros == <<Real(0), Real(0)>>

VAdd(u, v) == <<Add(u[1], v[1]), Add(u[2], v[2])>>

VScale(u, a) == <<Mul(u[1], a), Mul(u[2], a)>>

VReal(u) == <<Real(u[1]), Real(u[2])>>

----------------------------------------------------------------------------
(* ArtificialViscosity: solver/viscosity/artificial_viscosity.rs *)

alpha == 1

beta == 0

speed_of_sound == 10

Half == [n |-> 1, d |-> 2]

Hundredth == [n |-> 1, d |-> 100]

SameModel_any(c) == TRUE

SameModel(c) == c.i_model = c.j_model

ApproachRate(c) ==
    Dot(VSub(positions[c.i], positions[c.j]), VSub(velocities[c.i], velocities[c.j]))

Approaching(vr) == vr < 0

density_average(c) == Mul(Real(densities[c.i] + densities[c.j]), Half)

SoftenedSeparation(c) ==
    Add(Real(NormSquared(VSub(positions[c.i], positions[c.j]))),
        Mul(Real(kernel_radius * kernel_radius), Hundredth))

mu_ij(c) == Div(Real(kernel_radius * ApproachRate(c)), SoftenedSeparation(c))

ContactTerm(c) ==
    VScale(VReal(c.gradient),
           Mul(Sub(Mul(Real(speed_of_sound * alpha), mu_ij(c)),
                   Mul(Real(beta), Mul(mu_ij(c), mu_ij(c)))),
               Div(Real(volumes[c.j] * density0), density_average(c))))

RECURSIVE added_acc(_, _)
added_acc(cs, k) ==
    IF k = 0 THEN VZeros
    ELSE IF SameModel(cs[k]) /\ Approaching(ApproachRate(cs[k]))
         THEN VAdd(added_acc(cs, k - 1), ContactTerm(cs[k]))
         ELSE added_acc(cs, k - 1)

solve ==
    [i \in 1..Len(accelerations) |->
        LET cs == particle_contacts(visc_contacts, i)
        IN  VAdd(accelerations[i], VScale(added_acc(cs, Len(cs)), Real(viscosity_coefficient)))]

----------------------------------------------------------------------------
(* A fluid of two particles given to solve.  Its contact list is one that   *)
(* compute_contacts can build: every particle holds its self-contact, and   *)
(* may hold the other particle and a particle of another fluid model; the   *)
(* gradients are the ones the kernel pass wrote.                            *)

ViscIds == {1, 2}

Points == {<<0, 0>>, <<1, 0>>}

Speeds == {<<-1, 0>>, <<1, 0>>}

Gradients == {<<-1, 0>>, <<0, 0>>, <<1, 0>>, <<1, 1>>}

VolumeInputs == {1, 2}

RestDensities == {1, 2}

DensityInputs == {-1, 0, 1}

KernelRadii == {1, 2}

ViscosityInputs == {0, 1}

InitialAcceleration == <<Real(1), Real(0)>>

GradContact(i, jm, j, g) ==
    [i |-> i, i_model |-> 1, j |-> j, j_model |-> jm, weight |-> 0, gradient |-> g]

ContactLists(i) ==
    {<<GradContact(i, 1, i, <<0, 0>>)>> \o peer \o foreign :
        peer \in {<<>>} \cup {<<GradContact(i, 1, 3 - i, g)>> : g \in Gradients},
        foreign \in {<<>>, <<GradContact(i, 2, 3 - i, <<1, 0>>)>>}}

StoreOf(l1, l2) ==
    [contacts |-> l1 \o l2,
     contact_ranges |-> <<[start |-> 0, end |-> Len(l1)],
                          [start |-> Len(l1), end |-> Len(l1) + Len(l2)]>>]

InitViscosity ==
    /\ kernel_radius \in KernelRadii
    /\ viscosity_coefficient \in ViscosityInputs
    /\ positions \in [ViscIds -> Points]
    /\ velocities \in [ViscIds -> Speeds]
    /\ accelerations = [i \in ViscIds |-> InitialAcceleration]
    /\ volumes \in [ViscIds -> VolumeInputs]
    /\ density0 \in RestDensities
    /\ densities \in [ViscIds -> DensityInputs]
    /\ \E l1 \in ContactLists(1), l2 \in ContactLists(2) : visc_contacts = StoreOf(l1, l2)
    /\ solved = FALSE
    /\ h = kernel_radius
    /\ fluids = <<>>
    /\ boundaries = <<>>
    /\ NoContacts
    /\ NoCoupling

Solve ==
    /\ ~solved
    /\ accelerations' = solve
    /\ solved' = TRUE
    /\ UNCHANGED <<kernel_radius, viscosity_coefficient, positions, velocities, volumes,
                   density0, densities, visc_contacts>>
    /\ UNCHANGED <<worldVars, contactVars, couplingVars>>

NextViscosity == Solve

SpecViscosity == InitViscosity /\ [][NextViscosity]_vars

----------------------------------------------------------------------------
(* Properties of contact detection *)

FluidIds == {id \in (1..Len(fluids)) \X (1..MaxParticles) : id[2] <= Len(fluids[id[1]])}

BoundaryIds == {id \in (1..Len(boundaries)) \X (1..MaxParticles) : id[2] <= Len(boundaries[id[1]])}

\* Position used for a fluid particle by the last call: position + delta when deltas were supplied.
FluidPos(id) ==
    fluids[id[1]][id[2]]
    + (IF fluid_delta_pos = <<>> THEN 0 ELSE fluid_delta_pos[1][id[1]][id[2]])

BoundaryPos(id) == boundaries[id[1]][id[2]]

Near(a, b) == a - b <= h /\ b - a <= h

NearFluids(x) == {id \in FluidIds : Near(x, FluidPos(id))}

NearBoundaries(x) == {id \in BoundaryIds : Near(x, BoundaryPos(id))}

Slice(list, id) == particle_contacts(list[id[1]], id[2])

\* The j's recorded in slice R are exactly the particles of S, each once.
RecordsExactly(R, S) ==
    /\ \A k \in 1..Len(R) : <<R[k].j_model, R[k].j>> \in S
    /\ \A id \in S : Cardinality({k \in 1..Len(R) : R[k].j_model = id[1] /\ R[k].j = id[2]}) = 1
    /\ Len(R) = Cardinality(S)

Done == cc_pc = "done"

\* C1: after compute_contacts on freshly created output collections, the
\* contacts recorded for every fluid particle are exactly the fluid and the
\* boundary particles at distance <= h (fluid positions taken with their
\* delta), and those recorded for every boundary particle are exactly the
\* boundary particles at distance <= h; each is recorded once.
C1_NeighborsExact ==
    (Done /\ pass = "first") =>
        /\ \A id \in FluidIds :
              /\ RecordsExactly(Slice(fluid_fluid_contacts, id), NearFluids(FluidPos(id)))
              /\ RecordsExactly(Slice(fluid_boundary_contacts, id), NearBoundaries(FluidPos(id)))
        /\ \A id \in BoundaryIds :
              RecordsExactly(Slice(boundary_boundary_contacts, id), NearBoundaries(BoundaryPos(id)))

C1_Witness ==
    /\ Done /\ pass = "first" /\ fluid_delta_pos # <<>>
    /\ \E f \in FluidIds, b \in BoundaryIds :
          /\ FluidPos(f) # fluids[f[1]][f[2]]
          /\ FluidPos(f) - BoundaryPos(b) = h
          /\ ~Near(fluids[f[1]][f[2]] + 2 * (FluidPos(f) - fluids[f[1]][f[2]]), BoundaryPos(b))
          /\ Len(Slice(fluid_boundary_contacts, f)) = 1
          /\ Len(Slice(boundary_boundary_contacts, b)) = 1

RangesWellFormed(list, models, Count(_)) ==
    /\ Len(list) = Len(models)
    /\ \A m \in 1..Len(models) :
          LET pc == list[m]
              rg == pc.contact_ranges
          IN  /\ Len(rg) = Len(models[m])
              /\ \A p \in 1..Len(rg) :
                    /\ 0 <= rg[p].start /\ rg[p].start <= rg[p].end
                    /\ rg[p].end <= Len(contacts(pc))
                    /\ rg[p].end - rg[p].start = Count(<<m, p>>)
                    /\ \A k \in (rg[p].start + 1)..rg[p].end :
                          contacts(pc)[k].i = p /\ contacts(pc)[k].i_model = m
              /\ \A p, q \in 1..Len(rg) :
                    p # q => (rg[p].end <= rg[q].start \/ rg[q].end <= rg[p].start)

\* C2: after every call, each contact list has one range per particle of its
\* model, every range lies inside the flat array, ranges of different
\* particles are disjoint, the length of a range is the number of matches of
\* its particle in this pass, and every contact in it has i = that particle.
C2_RangePartition ==
    Done =>
        /\ RangesWellFormed(fluid_fluid_contacts, fluids,
                            LAMBDA id : Cardinality(NearFluids(FluidPos(id))))
        /\ RangesWellFormed(fluid_boundary_contacts, fluids,
                            LAMBDA id : Cardinality(NearBoundaries(FluidPos(id))))
        /\ RangesWellFormed(boundary_boundary_contacts, boundaries,
                            LAMBDA id : Cardinality(NearBoundaries(BoundaryPos(id))))

C2_Witness ==
    /\ Done /\ pass = "again"
    /\ \E m \in 1..Len(fluids) :
          /\ Len(fluids[m]) >= 2
          /\ fluid_fluid_contacts[m].contact_ranges[1].start > 0
          /\ fluid_fluid_contacts[m].contact_ranges[1].end
                > fluid_fluid_contacts[m].contact_ranges[1].start + 1
          /\ fluid_fluid_contacts[m].contact_ranges[2].end
                > fluid_fluid_contacts[m].contact_ranges[2].start + 1

\* C3: the contacts recorded for a boundary particle b name b as i and, as
\* j, pairwise different boundary particles within h of b (no fluid j is
\* recorded for a boundary i); the contacts recorded in a fluid-boundary list
\* have a fluid particle of the owning model as i and a boundary particle as
\* j; and every boundary particle within h of a fluid particle f appears as
\* j in f's fluid-boundary contacts.
C3_OneSided ==
    Done =>
        /\ \A b \in BoundaryIds :
              LET R == Slice(boundary_boundary_contacts, b)
              IN  /\ \A k \in 1..Len(R) :
                        /\ <<R[k].i_model, R[k].i>> = b
                        /\ <<R[k].j_model, R[k].j>> \in BoundaryIds
                        /\ Near(BoundaryPos(b), BoundaryPos(<<R[k].j_model, R[k].j>>))
                  /\ \A k, n \in 1..Len(R) :
                        k # n => <<R[k].j_model, R[k].j>> # <<R[n].j_model, R[n].j>>
        /\ \A f \in FluidIds :
              LET R == Slice(fluid_boundary_contacts, f)
              IN  /\ \A k \in 1..Len(R) :
                        /\ <<R[k].i_model, R[k].i>> = f
                        /\ <<R[k].j_model, R[k].j>> \in BoundaryIds
                  /\ \A b \in BoundaryIds :
                        Near(FluidPos(f), BoundaryPos(b)) =>
                            \E k \in 1..Len(R) : <<R[k].j_model, R[k].j>> = b

C3_Witness ==
    /\ Done
    /\ \E f \in FluidIds, b \in BoundaryIds :
          /\ Near(FluidPos(f), BoundaryPos(b))
          /\ Len(Slice(boundary_boundary_contacts, b)) = 1
          /\ Len(Slice(fluid_boundary_contacts, f)) = 1

\* C4 (as claimed): after any sequence of calls the lists equal those of a
\* single call on empty collections with the last input.
C4_RebuiltFromScratch ==
    Done =>
        LET once == compute_contacts(h, fluids, boundaries, fluid_delta_pos, <<>>, <<>>, <<>>)
        IN  /\ fluid_fluid_contacts = once.ff
            /\ fluid_boundary_contacts = once.fb
            /\ boundary_boundary_contacts = once.bb

Lonely(f) ==
    /\ NearFluids(FluidPos(f)) = {f}
    /\ NearBoundaries(FluidPos(f)) = {}

\* C5 (as claimed): a fluid particle with no other particle within h has an
\* empty range in both its fluid-fluid and its fluid-boundary list.
C5_LonelyEmptyBoth ==
    Done =>
        \A f \in FluidIds :
            Lonely(f) => /\ Slice(fluid_fluid_contacts, f) = <<>>
                         /\ Slice(fluid_boundary_contacts, f) = <<>>

\* C5 (amended): a fluid particle with no other particle within h has an
\* empty range in its fluid-boundary list, and its fluid-fluid range holds
\* exactly one contact, the self-contact (i, i).
C5_LonelySelfOnly ==
    Done =>
        \A f \in FluidIds :
            Lonely(f) =>
                LET R == Slice(fluid_fluid_contacts, f)
                    rb == fluid_boundary_contacts[f[1]].contact_ranges[f[2]]
                IN  /\ rb.start = rb.end
                    /\ Slice(fluid_boundary_contacts, f) = <<>>
                    /\ Len(R) = 1
                    /\ <<R[1].i_model, R[1].i>> = f
                    /\ <<R[1].j_model, R[1].j>> = f

C5_Witness ==
    /\ Done
    /\ \E f \in FluidIds :
          /\ Lonely(f)
          /\ Cardinality(FluidIds) + Cardinality(BoundaryIds) >= 2
          /\ fluid_fluid_contacts[f[1]].contact_ranges[f[2]].start > 0

----------------------------------------------------------------------------
(* Properties of LiquidWorld *)

CoupledTrace(dt) ==
    <<Call("update_boundaries", 0), Call("solver.step", dt), Call("transmit_forces", 0)>>

SolverSteps == {k \in 1..Len(trace) : trace[k].op = "solver.step"}

\* C6: every execution of step_with_coupling calls update_boundaries, then
\* the solver's step exactly once with the frame dt, then transmit_forces:
\* at each point of the execution the calls made so far are a prefix of that
\* order, and the completed execution made exactly these three calls.
C6_CouplingOrder ==
    /\ swc_pc > 0 => trace = SubSeq(CoupledTrace(frame_dt), 1, swc_pc)
    /\ (swc_pc = 0 /\ \E k \in 1..Len(trace) : trace[k].op # "solver.step")
          => trace = CoupledTrace(frame_dt)
    /\ Cardinality(SolverSteps) <= 1

C6_Witness ==
    /\ swc_pc = 0
    /\ Len(trace) = 3
    /\ trace[1].op = "update_boundaries"
    /\ trace[2] = Call("solver.step", frame_dt)
    /\ trace[3].op = "transmit_forces"

ValidConfiguration ==
    /\ h > 0
    /\ \A m \in 1..Len(fluids) : Len(fluids[m]) > 0
    /\ \A m \in 1..Len(boundaries) : Len(boundaries[m]) > 0

\* C7 (as claimed): new, add_fluid and add_boundary reject an invalid radius
\* and empty particle sets, so the solver is never stepped on a world with
\* h <= 0 or with an empty particle set.
C7_FailFast == SolverSteps # {} => ValidConfiguration

----------------------------------------------------------------------------
(* Properties of the viscosity pass *)

PeerContacts(i) ==
    LET cs == particle_contacts(visc_contacts, i)
    IN  {cs[k] : k \in {n \in 1..Len(cs) : cs[n].i_model = cs[n].j_model /\ cs[n].j # i}}

Closing(c) ==
    (positions[c.i][1] - positions[c.j][1]) * (velocities[c.i][1] - velocities[c.j][1])
    + (positions[c.i][2] - positions[c.j][2]) * (velocities[c.i][2] - velocities[c.j][2]) < 0

\* Acceleration added to particle i by the call of solve.
Increment(i) ==
    <<Sub(accelerations[i][1], InitialAcceleration[1]),
      Sub(accelerations[i][2], InitialAcceleration[2])>>

IsNumber(a) == ~(a.n = 0 /\ a.d = 0)

SymmetricApproachingPair ==
    /\ solved
    /\ viscosity_coefficient # 0
    /\ volumes[1] = volumes[2]
    /\ \E c \in PeerContacts(1), e \in PeerContacts(2) :
          /\ Closing(c)
          /\ c.gradient # <<0, 0>>
          /\ e.gradient = <<-c.gradient[1], -c.gradient[2]>>

\* C8 (as claimed): for an approaching pair of one model holding each other
\* with antisymmetric non-zero gradients, equal volumes and a non-zero
\* viscosity coefficient, solve adds increments that are non-zero, equal in
\* magnitude and opposite in direction.
C8_EqualAndOpposite ==
    SymmetricApproachingPair =>
        /\ \A k \in 1..2 : IsNumber(Increment(1)[k]) /\ IsNumber(Increment(2)[k])
        /\ Increment(1) # VZeros
        /\ Increment(1) = <<Neg(Increment(2)[1]), Neg(Increment(2)[2])>>

NoClosingPeer(i) == \A c \in PeerContacts(i) : ~Closing(c)

\* C9: solve changes nothing but fluid.accelerations, and leaves
\* accelerations[i] unchanged for every particle i without a same-model
\* approaching contact (cross-model, receding, stationary and self contacts
\* add nothing).
C9_OnlyApproachingSameModel ==
    [][/\ UNCHANGED <<kernel_radius, viscosity_coefficient, positions, velocities, volumes,
                      density0, densities, visc_contacts>>
       /\ \A i \in DOMAIN accelerations :
             NoClosingPeer(i) => accelerations'[i] = accelerations[i]]_vars

C9_Witness ==
    /\ solved
    /\ viscosity_coefficient # 0
    /\ \E i \in ViscIds :
          LET cs == particle_contacts(visc_contacts, i)
          IN  /\ Len(cs) = 2
              /\ cs[1].j = i /\ cs[1].j_model = cs[1].i_model
              /\ cs[2].j_model # cs[2].i_model
              /\ Closing(cs[2])
              /\ accelerations[i] = InitialAcceleration
              /\ accelerations[3 - i] # InitialAcceleration

Positive(a) == a.n > 0 /\ a.d > 0

\* C10 (as claimed): for every same-model approaching contact processed by
\* solve with kernel_radius > 0, both divisors are strictly positive: the
\* softened separation and the average density.
C10_PositiveDivisors ==
    (solved /\ kernel_radius > 0) =>
        \A i \in ViscIds : \A c \in PeerContacts(i) :
            Closing(c) => /\ Positive(SoftenedSeparation(c))
                          /\ Positive(density_average(c))

=============================================================================
